---- MODULE Spec2Model ----
(***************************************************************************)
(* Model of predictr-io/aws-sns-send-message: the entry point run() and    *)
(* publishMessage() with its validators and the attribute parser (sns.ts). *)
(*                                                                         *)
(* Strings that the code inspects character by character (the topic ARN,   *)
(* base64 text) are sequences of one-character strings; other strings are  *)
(* TLA+ strings.  A JS object with optional properties is a function whose *)
(* DOMAIN holds the properties that are set.  The value undefined of an    *)
(* optional string is the string Undefined.                                *)
(***************************************************************************)
EXTENDS Integers, Sequences, FiniteSets, TLC

\* ------------------------------------------------------------------ bounds
\* Largest number of top-level keys of an attribute object that is drawn.
MaxKeys == 11
\* --------------------------------------------------------- program constants
\* sns.ts:38  if (attributeKeys.length > 10)
MaxAttributes == 10
\* sns.ts:145 const maxSizeBytes = 256 * 1024
maxSizeBytes == 256 * 1024
\* sns.ts:45
validDataTypes == <<"String", "Number", "Binary", "String.Array">>

Undefined == "<undefined>"

\* JS truthiness of an optional string: neither undefined nor "".
Truthy(s) == s # Undefined /\ s # ""

\* ------------------------------------------------------------ text helpers
Digit(d) == CASE d = 0 -> "0" [] d = 1 -> "1" [] d = 2 -> "2" [] d = 3 -> "3"
              [] d = 4 -> "4" [] d = 5 -> "5" [] d = 6 -> "6" [] d = 7 -> "7"
              [] d = 8 -> "8" [] d = 9 -> "9"

RECURSIVE NumToString(_)
\* String(n) / `${n}` of a non-negative integer: its decimal digits.
NumToString(n) == IF n < 10 THEN Digit(n)
                  ELSE NumToString(n \div 10) \o Digit(n % 10)

RECURSIVE Join(_)
\* The string whose characters are the elements of cs.
Join(cs) == IF cs = <<>> THEN "" ELSE Head(cs) \o Join(Tail(cs))

RECURSIVE JoinWith(_, _)
\* Array.prototype.join(sep) on an array of strings.
JoinWith(ss, sep) == IF ss = <<>> THEN ""
                     ELSE IF Len(ss) = 1 THEN ss[1]
                     ELSE ss[1] \o sep \o JoinWith(Tail(ss), sep)

\* String.prototype.endsWith on character sequences.
EndsWith(s, suffix) ==
  /\ Len(s) >= Len(suffix)
  /\ SubSeq(s, Len(s) - Len(suffix) + 1, Len(s)) = suffix

StartsWith(s, prefix) ==
  /\ Len(s) >= Len(prefix)
  /\ SubSeq(s, 1, Len(prefix)) = prefix

\* Number of leading elements of s that lie in class.
RECURSIVE RunLength(_, _)
RunLength(s, class) == IF s = <<>> \/ Head(s) \notin class THEN 0
                       ELSE 1 + RunLength(Tail(s), class)

Drop(s, n) == SubSeq(s, n + 1, Len(s))

\* ------------------------------------------------------------ thrown values
\* A raised value: an Error carrying a message, or any other value, of which
\* the code only uses String(value), held in str.
ErrorOf(msg) == [kind |-> "Error", message |-> msg, str |-> "Error: " \o msg]
OtherThrown(text) == [kind |-> "other", message |-> Undefined, str |-> text]
NoThrow == [kind |-> "none", message |-> Undefined, str |-> Undefined]

\* Variant of ErrorMessageOf that reads .message of whatever was raised.
ErrorMessageOfMessageOnly(thrown) == thrown.message

\* error instanceof Error ? error.message : String(error)
ErrorMessageOf(thrown) ==
  IF thrown.kind = "Error" THEN thrown.message ELSE thrown.str

\* obj.field of a JS object: undefined when the property is not set.
Get(obj, field) == IF field \in DOMAIN obj THEN obj[field] ELSE Undefined

\* ------------------------------------------------------------- validators
DigitChars == {"0", "1", "2", "3", "4", "5", "6", "7", "8", "9"}
LowerChars == {"a", "b", "c", "d", "e", "f", "g", "h", "i", "j", "k", "l", "m",
               "n", "o", "p", "q", "r", "s", "t", "u", "v", "w", "x", "y", "z"}
RegionChars == LowerChars \cup DigitChars \cup {"-"}
\* The characters U+2028 and U+2029, each written as one element.
LineSeparator == "<U+2028>"
ParagraphSeparator == "<U+2029>"
\* Characters the regular expression's "." does not match.
LineTerminators == {"\n", "\r", LineSeparator, ParagraphSeparator}
\* Characters String.prototype.trim removes, among those the inputs use.
WhitespaceChars == {" ", "\t"} \cup LineTerminators
\* s is the result of a trim: no white space at either end.
Trimmed(s) == IF s = <<>> THEN TRUE
              ELSE Head(s) \notin WhitespaceChars
                   /\ s[Len(s)] \notin WhitespaceChars

ArnPrefix == <<"a", "r", "n", ":", "a", "w", "s", ":", "s", "n", "s", ":">>
FifoSuffix == <<".", "f", "i", "f", "o">>

\* Variant of arnPatternTest for the pattern with \d* in place of \d+.
arnPatternTestAnyAccount(topicArn) ==
  /\ StartsWith(topicArn, ArnPrefix)
  /\ LET afterPrefix == Drop(topicArn, Len(ArnPrefix))
         regionLen   == RunLength(afterPrefix, RegionChars)
         afterRegion == Drop(afterPrefix, regionLen)
     IN  /\ regionLen >= 1
         /\ afterRegion # <<>> /\ Head(afterRegion) = ":"
         /\ LET afterColon   == Tail(afterRegion)
                accountLen   == RunLength(afterColon, DigitChars)
                afterAccount == Drop(afterColon, accountLen)
            IN  /\ afterAccount # <<>> /\ Head(afterAccount) = ":"
                /\ LET name == Tail(afterAccount)
                   IN  /\ Len(name) >= 1
                       /\ \A i \in 1..Len(name) : name[i] \notin LineTerminators

\* /^arn:aws:sns:[a-z0-9-]+:\d+:.+$/.test(topicArn)
\* Neither character class contains ":", so each "+" takes the whole run.
arnPatternTest(topicArn) ==
  /\ StartsWith(topicArn, ArnPrefix)
  /\ LET afterPrefix == Drop(topicArn, Len(ArnPrefix))
         regionLen   == RunLength(afterPrefix, RegionChars)
         afterRegion == Drop(afterPrefix, regionLen)
     IN  /\ regionLen >= 1
         /\ afterRegion # <<>> /\ Head(afterRegion) = ":"
         /\ LET afterColon   == Tail(afterRegion)
                accountLen   == RunLength(afterColon, DigitChars)
                afterAccount == Drop(afterColon, accountLen)
            IN  /\ accountLen >= 1
                /\ afterAccount # <<>> /\ Head(afterAccount) = ":"
                /\ LET name == Tail(afterAccount)
                   IN  /\ Len(name) >= 1
                       /\ \A i \in 1..Len(name) : name[i] \notin LineTerminators

\* validateTopicArn: the value thrown, or NoThrow.
validateTopicArn(topicArn) ==
  IF ~ arnPatternTest(topicArn)
  THEN ErrorOf("Invalid topic ARN format: \"" \o Join(topicArn) \o "\". "
               \o "Expected format: arn:aws:sns:{region}:{account-id}:{topic-name}")
  ELSE NoThrow

\* A message is a string of ascii one-byte characters and wide three-byte
\* characters; Buffer.byteLength(message, 'utf8') counts the bytes of each.
byteLength(message) == message.ascii + 3 * message.wide
charLength(message) == message.ascii + message.wide

\* Variant of validateMessage that measures message.length, the number of
\* characters, instead of the number of bytes.
validateMessageByLength(message) ==
  LET sizeInBytes == charLength(message)
  IN  IF sizeInBytes > maxSizeBytes
      THEN ErrorOf("Message size (" \o NumToString(sizeInBytes)
                   \o " bytes) exceeds maximum allowed size ("
                   \o NumToString(maxSizeBytes) \o " bytes / 256 KB)")
      ELSE NoThrow

\* validateMessage: the value thrown, or NoThrow.
validateMessage(message) ==
  LET sizeInBytes == byteLength(message)
  IN  IF sizeInBytes > maxSizeBytes
      THEN ErrorOf("Message size (" \o NumToString(sizeInBytes)
                   \o " bytes) exceeds maximum allowed size ("
                   \o NumToString(maxSizeBytes) \o " bytes / 256 KB)")
      ELSE NoThrow

validateMessageStructure(messageStructure) ==
  IF messageStructure # Undefined /\ messageStructure # "json"
  THEN ErrorOf("Invalid message-structure: \"" \o messageStructure
               \o "\". Must be \"json\" or left empty.")
  ELSE NoThrow

FifoRequiredText ==
  "message-group-id is required for FIFO topics (topic ARN ends with .fifo)"
FifoWarningText ==
  "message-group-id is provided but topic ARN does not end with .fifo. "
  \o "This parameter will be ignored for standard topics."

isFifo(topicArn) == EndsWith(topicArn, FifoSuffix)

\* Variant of validateFifoTopic that tests the group id against undefined
\* only, so that an empty group id passes.
validateFifoTopicUndefinedOnly(topicArn, messageGroupId) ==
  IF isFifo(topicArn) /\ messageGroupId = Undefined
  THEN ErrorOf(FifoRequiredText)
  ELSE NoThrow

\* validateFifoTopic: the value thrown, or NoThrow ...
validateFifoTopic(topicArn, messageGroupId) ==
  IF isFifo(topicArn) /\ ~ Truthy(messageGroupId)
  THEN ErrorOf(FifoRequiredText)
  ELSE NoThrow

\* Variant of validateFifoTopicWarnings that warns for every supplied group id.
validateFifoTopicWarningsAnyGroupId(topicArn, messageGroupId) ==
  IF Truthy(messageGroupId) THEN <<FifoWarningText>> ELSE <<>>

\* ... and the warnings it passes to core.warning.
validateFifoTopicWarnings(topicArn, messageGroupId) ==
  IF ~ (isFifo(topicArn) /\ ~ Truthy(messageGroupId))
     /\ ~ isFifo(topicArn) /\ Truthy(messageGroupId)
  THEN <<FifoWarningText>>
  ELSE <<>>

\* ------------------------------------------------ attribute parser (sns.ts)
\* A JSON value found under StringValue: absent, a JSON string or a JSON number.
JsonUndefined == [t |-> "undefined", s |-> "", n |-> 0]
JsonString(str) == [t |-> "string", s |-> str, n |-> 0]
JsonNumber(num) == [t |-> "number", s |-> "", n |-> num]

\* String(value) of a JSON string or non-negative JSON integer.
String(v) == IF v.t = "string" THEN v.s ELSE NumToString(v.n)

\* Base64 text found under BinaryValue: absent, or a sequence of characters.
B64Undefined == [t |-> "undefined", chars |-> <<>>]
B64Text(cs) == [t |-> "string", chars |-> cs]

B64Alphabet ==
  <<"A", "B", "C", "D", "E", "F", "G", "H", "I", "J", "K", "L", "M",
    "N", "O", "P", "Q", "R", "S", "T", "U", "V", "W", "X", "Y", "Z",
    "a", "b", "c", "d", "e", "f", "g", "h", "i", "j", "k", "l", "m",
    "n", "o", "p", "q", "r", "s", "t", "u", "v", "w", "x", "y", "z",
    "0", "1", "2", "3", "4", "5", "6", "7", "8", "9", "+", "/">>

B64Index(c) == (CHOOSE i \in 1..64 : B64Alphabet[i] = c) - 1

RECURSIVE B64Sextets(_)
\* The 6-bit values of the characters before the first "=".
B64Sextets(cs) == IF cs = <<>> \/ Head(cs) = "=" THEN <<>>
                  ELSE <<B64Index(Head(cs))>> \o B64Sextets(Tail(cs))

RECURSIVE B64Bytes(_)
\* Four sextets give three bytes, three give two, two give one.
B64Bytes(v) ==
  IF Len(v) < 2 THEN <<>>
  ELSE LET b1 == v[1] * 4 + (v[2] \div 16)
       IN  IF Len(v) = 2 THEN <<b1>>
           ELSE LET b2 == (v[2] % 16) * 16 + (v[3] \div 4)
                IN  IF Len(v) = 3 THEN <<b1, b2>>
                    ELSE <<b1, b2, (v[3] % 4) * 64 + v[4]>>
                         \o B64Bytes(Drop(v, 4))

\* new Uint8Array(Buffer.from(text, 'base64')) for text over the base64
\* alphabet with optional trailing "=" padding.
Base64Decode(cs) == B64Bytes(B64Sextets(cs))

validDataTypesText == JoinWith(validDataTypes, ", ")

IsValidDataType(dt) == \E i \in 1..Len(validDataTypes) : validDataTypes[i] = dt

IsStringType(dt) == dt = "String" \/ dt = "Number" \/ dt = "String.Array"

\* Variant of attrCheck without the branch for the Binary data type.
attrCheckNoBinaryBranch(key, attr) ==
  IF ~ Truthy(attr.DataType)
  THEN ErrorOf("Missing DataType for attribute \"" \o key
               \o "\". Must be one of: " \o validDataTypesText)
  ELSE IF ~ IsValidDataType(attr.DataType)
  THEN ErrorOf("Invalid DataType \"" \o attr.DataType \o "\" for attribute \""
               \o key \o "\". Must be one of: " \o validDataTypesText)
  ELSE IF IsStringType(attr.DataType) /\ attr.StringValue.t = "undefined"
  THEN ErrorOf("Missing StringValue for attribute \"" \o key
               \o "\" with DataType \"" \o attr.DataType \o "\"")
  ELSE NoThrow

\* Lines 54-81: the value thrown for one [key, value] entry, or NoThrow.
attrCheck(key, attr) ==
  IF ~ Truthy(attr.DataType)
  THEN ErrorOf("Missing DataType for attribute \"" \o key
               \o "\". Must be one of: " \o validDataTypesText)
  ELSE IF ~ IsValidDataType(attr.DataType)
  THEN ErrorOf("Invalid DataType \"" \o attr.DataType \o "\" for attribute \""
               \o key \o "\". Must be one of: " \o validDataTypesText)
  ELSE IF IsStringType(attr.DataType) /\ attr.StringValue.t = "undefined"
  THEN ErrorOf("Missing StringValue for attribute \"" \o key
               \o "\" with DataType \"" \o attr.DataType \o "\"")
  ELSE IF attr.DataType = "Binary" /\ attr.BinaryValue.t = "undefined"
  THEN ErrorOf("Missing BinaryValue for attribute \"" \o key
               \o "\" with DataType \"Binary\"")
  ELSE NoThrow

\* Lines 83-94: the MessageAttributeValue built for a checked entry.
messageAttr(attr) ==
  LET fields == {"DataType"}
                \cup (IF attr.StringValue.t # "undefined"
                      THEN {"StringValue"} ELSE {})
                \cup (IF attr.BinaryValue.t # "undefined"
                      THEN {"BinaryValue"} ELSE {})
  IN  [f \in fields |->
         CASE f = "DataType"    -> attr.DataType
           [] f = "StringValue" -> String(attr.StringValue)
           [] f = "BinaryValue" -> Base64Decode(attr.BinaryValue.chars)]

RECURSIVE firstAttrThrow(_)
\* The for loop of lines 47-97 stops at the first entry that throws.
firstAttrThrow(entries) ==
  IF entries = <<>> THEN NoThrow
  ELSE LET t == attrCheck(Head(entries).key, Head(entries).value)
       IN  IF t # NoThrow THEN t ELSE firstAttrThrow(Tail(entries))

\* Object.keys(parsed).length
attributeKeysLength(json) == Len(json.entries)

SyntaxErrorText == "Unexpected end of JSON input"
NullKeysText == "Cannot convert undefined or null to object"

\* Variant of parseInnerThrow whose count test is >= instead of >.
parseInnerThrowOffByOne(json) ==
  IF json.tag = "malformed" THEN ErrorOf(SyntaxErrorText)
  ELSE IF json.tag = "null" THEN ErrorOf(NullKeysText)
  ELSE IF attributeKeysLength(json) >= MaxAttributes
  THEN ErrorOf("Too many message attributes: "
               \o NumToString(attributeKeysLength(json))
               \o ". Maximum allowed is 10.")
  ELSE firstAttrThrow(json.entries)

\* The value thrown inside the try block of lines 32-99, or NoThrow.
parseInnerThrow(json) ==
  IF json.tag = "malformed" THEN ErrorOf(SyntaxErrorText)
  ELSE IF json.tag = "null" THEN ErrorOf(NullKeysText)
  ELSE IF attributeKeysLength(json) > MaxAttributes
  THEN ErrorOf("Too many message attributes: "
               \o NumToString(attributeKeysLength(json))
               \o ". Maximum allowed is 10.")
  ELSE firstAttrThrow(json.entries)

ParseWrapText == "Failed to parse message attributes: "

\* parseMessageAttributes: thrown is the Error of line 102 or NoThrow, and
\* attributes is the returned map (empty when it throws).
parseMessageAttributes(json) ==
  LET inner == parseInnerThrow(json)
  IN  IF inner # NoThrow
      THEN [thrown |-> ErrorOf(ParseWrapText \o ErrorMessageOf(inner)),
            attributes |-> <<>>]
      ELSE [thrown |-> NoThrow,
            attributes |->
              [k \in {json.entries[i].key : i \in 1..Len(json.entries)} |->
                 messageAttr(json.entries[CHOOSE i \in 1..Len(json.entries) :
                                            json.entries[i].key = k].value)]]

\* ----------------------------------------------------------------- inputs
StdArn == ArnPrefix \o <<"e", "u", "-", "1", ":", "1", "2", ":", "t">>
FifoArn == StdArn \o FifoSuffix
BadArn == <<"s", "n", "s", ":", "e", "u", ":", "1", ":", "t">>
BadFifoArn == BadArn \o FifoSuffix
Arns == {<<>>, StdArn, FifoArn, BadArn, BadFifoArn}

Messages == {[ascii |-> 0, wide |-> 0],
             [ascii |-> 2, wide |-> 1],
             [ascii |-> maxSizeBytes - 3, wide |-> 1],
             [ascii |-> maxSizeBytes - 2, wide |-> 1]}

Attr(dt, sv, bv) == [DataType |-> dt, StringValue |-> sv, BinaryValue |-> bv]
Base64Hi == B64Text(<<"a", "G", "k", "=">>)
ValidStringAttr == Attr("String", JsonString("x"), B64Undefined)
AttrKinds ==
  {Attr(dt, sv, bv) :
     dt \in {Undefined, "", "String", "Number", "Binary", "String.Array", "Boolean"},
     sv \in {JsonUndefined, JsonString(""), JsonString("x"), JsonNumber(42)},
     bv \in {B64Undefined, Base64Hi}}

Key(i) == "K" \o NumToString(i)

\* The text of a JSON object with n distinct keys K1..Kn: the first ones hold
\* the attributes of first, the others hold a valid String attribute.
ObjectJson(first, n) ==
  [tag |-> "object",
   entries |-> [i \in 1..n |->
                  [key |-> Key(i),
                   value |-> IF i <= Len(first) THEN first[i]
                             ELSE ValidStringAttr]]]
\* messageAttributes that is undefined, "", not JSON, or the JSON text null.
NoJson(tag) == [tag |-> tag, entries |-> <<>>]

\* config.messageAttributes is truthy
Supplied(json) == json.tag \notin {"undefined", "empty"}

PublishAttrs ==
  {NoJson("undefined"), NoJson("empty"), NoJson("malformed"), NoJson("null"),
   ObjectJson(<<>>, 0),
   ObjectJson(<<ValidStringAttr>>, 1),
   ObjectJson(<<Attr("String", JsonString("x"), Base64Hi)>>, 1),
   ObjectJson(<<Attr("Binary", JsonUndefined, Base64Hi)>>, 2),
   ObjectJson(<<Attr("Number", JsonUndefined, B64Undefined)>>, 2),
   ObjectJson(<<>>, MaxAttributes),
   ObjectJson(<<>>, MaxKeys),
   ObjectJson(<<Attr("Boolean", JsonString("x"), B64Undefined)>>, MaxKeys)}

ParseAttrs ==
  {NoJson("malformed"), NoJson("null")}
  \cup {ObjectJson(<<>>, n) : n \in 0..MaxKeys}
  \cup {ObjectJson(<<a>>, n) : a \in AttrKinds, n \in 1..MaxKeys}
  \cup {ObjectJson(<<ValidStringAttr, a>>, n) : a \in AttrKinds, n \in 2..MaxKeys}

OptionalStrings(v) == {Undefined, "", v}

Configs(attrs) ==
  [topicArn : Arns, message : Messages,
   subject : OptionalStrings("subj"),
   messageAttributes : attrs,
   messageGroupId : OptionalStrings("g1"),
   messageDeduplicationId : OptionalStrings("d1"),
   messageStructure : {Undefined, "", "json", "xml"}]

\* What the remote publish collaborator may answer.
Responses == [MessageId : OptionalStrings("m-1"),
              SequenceNumber : OptionalStrings("s-1")]
RemoteThrown == {ErrorOf(""), ErrorOf("AccessDenied"), OtherThrown("timeout")}

\* ------------------------------------------------------------------ state
VARIABLES
  given,     \* what getInput returns to run(), or what a direct caller passes
  caller,    \* "run" or "direct": who called publishMessage
  pc,        \* position of the invocation
  config,    \* the MessageConfig publishMessage works on
  checks,    \* the checks publishMessage has evaluated, in order
  warnings,  \* core.warning calls
  errors,    \* core.error calls
  sent,      \* the PublishCommandInputs handed to client.send
  result,    \* the MessageResult publishMessage returned
  remote,    \* what the awaited client.send produced
  parsed,    \* the last call of parseMessageAttributes: argument and outcome
  outputs,   \* core.setOutput calls: name -> value
  failed     \* core.setFailed calls

vars == <<given, caller, pc, config, checks, warnings, errors, sent, remote,
          result, parsed, outputs, failed>>

NoResult == [none |-> TRUE]
NoResponse == [MessageId |-> Undefined, SequenceNumber |-> Undefined]
NoRemote == [state |-> "none", response |-> NoResponse, thrown |-> NoThrow]
NotParsed == [done |-> FALSE, json |-> NoJson("undefined"),
              thrown |-> NoThrow, attributes |-> <<>>]
\* The record of a call of parseMessageAttributes(json).
ParsedBy(json) == [done |-> TRUE, json |-> json,
                   thrown |-> parseMessageAttributes(json).thrown,
                   attributes |-> parseMessageAttributes(json).attributes]

InitWith(configs, start) ==
  /\ given \in configs
  /\ caller = "none"
  /\ pc = start
  /\ config = [none |-> TRUE]
  /\ checks = <<>>
  /\ warnings = <<>>
  /\ errors = <<>>
  /\ sent = <<>>
  /\ remote = NoRemote
  /\ result = NoResult
  /\ parsed = NotParsed
  /\ outputs = <<>>
  /\ failed = <<>>

\* Configs that vary only messageAttributes, over the larger set ParseAttrs.
ParseConfigs ==
  {[topicArn |-> StdArn, message |-> [ascii |-> 2, wide |-> 1],
    subject |-> Undefined, messageAttributes |-> a,
    messageGroupId |-> Undefined, messageDeduplicationId |-> Undefined,
    messageStructure |-> Undefined] : a \in ParseAttrs}

Init == InitWith(Configs(PublishAttrs) \cup ParseConfigs, "start")

\* ---------------------------------------------------------- run(), part 1
\* core.getInput(name) || undefined
OrUndefined(s) == IF Truthy(s) THEN s ELSE Undefined

RequiredText(name) == "Input required and not supplied: " \o name

\* run() lines 9-37: read the inputs, build the config, call publishMessage.
\* given holds what getInput returns, which is the trimmed input.  getInput
\* with required: true throws when the input is not supplied, and the catch
\* of run() passes the message to setFailed; a required input of white space
\* only is supplied and comes back empty.
RunGetInputs ==
  /\ pc = "start"
  /\ Trimmed(given.topicArn)
  /\ caller' = "run"
  /\ \E noArn \in IF given.topicArn = <<>> THEN BOOLEAN ELSE {FALSE},
        noMessage \in IF charLength(given.message) = 0 THEN BOOLEAN ELSE {FALSE} :
     IF noArn \/ noMessage
     THEN /\ failed' = Append(failed,
                 RequiredText(IF noArn THEN "topic-arn" ELSE "message"))
          /\ pc' = "done"
          /\ UNCHANGED config
     ELSE /\ config' =
               [topicArn |-> given.topicArn,
                message |-> given.message,
                subject |-> OrUndefined(given.subject),
                messageAttributes |->
                  IF Supplied(given.messageAttributes)
                  THEN given.messageAttributes ELSE NoJson("undefined"),
                messageGroupId |-> OrUndefined(given.messageGroupId),
                messageDeduplicationId |->
                  OrUndefined(given.messageDeduplicationId),
                messageStructure |-> OrUndefined(given.messageStructure)]
          /\ pc' = "validateTopicArn"
          /\ UNCHANGED failed
  /\ UNCHANGED <<given, checks, warnings, errors, sent, remote, result, parsed,
                 outputs>>

\* publishMessage is exported: another caller passes its config as it is.
CallPublishMessage ==
  /\ pc = "start"
  /\ caller' = "direct"
  /\ config' = given
  /\ pc' = "validateTopicArn"
  /\ UNCHANGED <<given, checks, warnings, errors, sent, remote, result, parsed,
                 outputs, failed>>

\* ---------------------------------------------------------- publishMessage
\* Where control goes when publishMessage returns.
ReturnPc == IF caller = "run" THEN "handle" ELSE "done"

\* The MessageResult of the catch block, lines 232-239.
FailureResult(thrown) == [success |-> FALSE, error |-> ErrorMessageOf(thrown)]

\* The catch block: log the error and return the failure result.
Catch(thrown) ==
  /\ errors' = Append(errors, "Failed to publish message: "
                              \o ErrorMessageOf(thrown))
  /\ result' = FailureResult(thrown)
  /\ pc' = ReturnPc

\* Variant of Check in which a throwing validator is logged but control
\* still moves on to the next statement.
CheckContinues(name, thrown, next) ==
  /\ checks' = Append(checks, name)
  /\ pc' = next
  /\ IF thrown # NoThrow
     THEN /\ errors' = Append(errors, "Failed to publish message: "
                                      \o ErrorMessageOf(thrown))
          /\ result' = FailureResult(thrown)
     ELSE UNCHANGED <<errors, result>>

\* One validator call of lines 174-177: on a throw the catch block runs,
\* otherwise control moves to the next statement.
Check(name, thrown, next) ==
  /\ checks' = Append(checks, name)
  /\ IF thrown # NoThrow
     THEN Catch(thrown)
     ELSE pc' = next /\ UNCHANGED <<errors, result>>

ValidateTopicArn ==
  /\ pc = "validateTopicArn"
  /\ Check("arn", validateTopicArn(config.topicArn), "validateMessage")
  /\ UNCHANGED <<given, caller, config, warnings, sent, remote, parsed, outputs,
                 failed>>

ValidateMessage ==
  /\ pc = "validateMessage"
  /\ Check("size", validateMessage(config.message), "validateMessageStructure")
  /\ UNCHANGED <<given, caller, config, warnings, sent, remote, parsed, outputs,
                 failed>>

ValidateMessageStructure ==
  /\ pc = "validateMessageStructure"
  /\ Check("structure", validateMessageStructure(config.messageStructure),
           "validateFifoTopic")
  /\ UNCHANGED <<given, caller, config, warnings, sent, remote, parsed, outputs,
                 failed>>

ValidateFifoTopic ==
  /\ pc = "validateFifoTopic"
  /\ Check("fifo", validateFifoTopic(config.topicArn, config.messageGroupId),
           "build")
  /\ warnings' = warnings \o validateFifoTopicWarnings(config.topicArn,
                                                       config.messageGroupId)
  /\ UNCHANGED <<given, caller, config, sent, remote, parsed, outputs, failed>>

\* Variant of buildInput that tests the subject against undefined only, so
\* that an empty subject is put into the request.
buildInputSubjectDefined(cfg, attributes) ==
  LET fields ==
        {"TopicArn", "Message"}
        \cup (IF cfg.subject # Undefined THEN {"Subject"} ELSE {})
        \cup (IF Supplied(cfg.messageAttributes)
              THEN {"MessageAttributes"} ELSE {})
        \cup (IF Truthy(cfg.messageStructure) THEN {"MessageStructure"} ELSE {})
        \cup (IF Truthy(cfg.messageGroupId) THEN {"MessageGroupId"} ELSE {})
        \cup (IF Truthy(cfg.messageDeduplicationId)
              THEN {"MessageDeduplicationId"} ELSE {})
  IN  [f \in fields |->
         CASE f = "TopicArn" -> cfg.topicArn
           [] f = "Message" -> cfg.message
           [] f = "Subject" -> cfg.subject
           [] f = "MessageAttributes" -> attributes
           [] f = "MessageStructure" -> cfg.messageStructure
           [] f = "MessageGroupId" -> cfg.messageGroupId
           [] f = "MessageDeduplicationId" -> cfg.messageDeduplicationId]

\* Lines 183-213: the PublishCommandInput, given the parsed attribute map.
buildInput(cfg, attributes) ==
  LET fields ==
        {"TopicArn", "Message"}
        \cup (IF Truthy(cfg.subject) THEN {"Subject"} ELSE {})
        \cup (IF Supplied(cfg.messageAttributes)
              THEN {"MessageAttributes"} ELSE {})
        \cup (IF Truthy(cfg.messageStructure) THEN {"MessageStructure"} ELSE {})
        \cup (IF Truthy(cfg.messageGroupId) THEN {"MessageGroupId"} ELSE {})
        \cup (IF Truthy(cfg.messageDeduplicationId)
              THEN {"MessageDeduplicationId"} ELSE {})
  IN  [f \in fields |->
         CASE f = "TopicArn" -> cfg.topicArn
           [] f = "Message" -> cfg.message
           [] f = "Subject" -> cfg.subject
           [] f = "MessageAttributes" -> attributes
           [] f = "MessageStructure" -> cfg.messageStructure
           [] f = "MessageGroupId" -> cfg.messageGroupId
           [] f = "MessageDeduplicationId" -> cfg.messageDeduplicationId]

\* Variant of BuildAndSend that hands the command to client.send although
\* parsing the attributes threw.
BuildAndSendDespiteParseFailure ==
  /\ pc = "build"
  /\ LET p == IF Supplied(config.messageAttributes)
              THEN ParsedBy(config.messageAttributes)
              ELSE parsed
     IN  /\ parsed' = p
         /\ checks' = IF Supplied(config.messageAttributes)
                      THEN Append(checks, "attributes") ELSE checks
         /\ sent' = Append(sent, buildInput(config, p.attributes))
         /\ IF p.thrown # NoThrow
            THEN Catch(p.thrown)
            ELSE pc' = "awaiting" /\ UNCHANGED <<errors, result>>
  /\ UNCHANGED <<given, caller, config, warnings, remote, outputs, failed>>

\* Lines 179-217: build the input, parsing the attributes when supplied, and
\* hand the command to client.send; a parse failure goes to the catch block
\* before anything is sent.
BuildAndSend ==
  /\ pc = "build"
  /\ LET p == IF Supplied(config.messageAttributes)
              THEN ParsedBy(config.messageAttributes)
              ELSE parsed
     IN  /\ parsed' = p
         /\ checks' = IF Supplied(config.messageAttributes)
                      THEN Append(checks, "attributes") ELSE checks
         /\ IF p.thrown # NoThrow
            THEN Catch(p.thrown) /\ UNCHANGED sent
            ELSE /\ sent' = Append(sent, buildInput(config, p.attributes))
                 /\ pc' = "awaiting"
                 /\ UNCHANGED <<errors, result>>
  /\ UNCHANGED <<given, caller, config, warnings, remote, outputs, failed>>

\* Variant of SuccessResult that leaves the sequence number out.
SuccessResultNoSequence(response) ==
  [success |-> TRUE,
   messageId |-> response.MessageId,
   sequenceNumber |-> Undefined]

\* The MessageResult of lines 227-231.
SuccessResult(response) ==
  [success |-> TRUE,
   messageId |-> response.MessageId,
   sequenceNumber |-> response.SequenceNumber]

\* The awaited client.send resolves with a response.
SendResolves ==
  /\ pc = "awaiting"
  /\ \E response \in Responses :
       /\ remote' = [state |-> "resolved", response |-> response,
                     thrown |-> NoThrow]
       /\ result' = SuccessResult(response)
  /\ pc' = ReturnPc
  /\ UNCHANGED <<given, caller, config, checks, warnings, errors, sent, parsed,
                 outputs, failed>>

\* The awaited client.send rejects: the catch block runs.
SendRejects ==
  /\ pc = "awaiting"
  /\ \E thrown \in RemoteThrown :
       /\ remote' = [state |-> "rejected", response |-> NoResponse,
                     thrown |-> thrown]
       /\ Catch(thrown)
  /\ UNCHANGED <<given, caller, config, checks, warnings, sent, parsed,
                 outputs, failed>>

\* ---------------------------------------------------------- run(), part 2
DefaultFailureText == "Failed to publish message"

\* result.error || 'Failed to publish message'
thrownByRun(res) ==
  ErrorOf(IF Truthy(Get(res, "error")) THEN res.error ELSE DefaultFailureText)

\* Variant of outputsOf that sets sequence-number under the test for the
\* message id.
outputsOfOneTest(res) ==
  LET names == IF Truthy(Get(res, "messageId"))
               THEN {"message-id", "sequence-number"} ELSE {}
  IN  [o \in names |-> IF o = "message-id" THEN res.messageId
                       ELSE res.sequenceNumber]

\* The setOutput calls of lines 45-51.
outputsOf(res) ==
  LET names == (IF Truthy(Get(res, "messageId")) THEN {"message-id"} ELSE {})
               \cup (IF Truthy(Get(res, "sequenceNumber"))
                     THEN {"sequence-number"} ELSE {})
  IN  [o \in names |-> IF o = "message-id" THEN res.messageId
                       ELSE res.sequenceNumber]

\* run() lines 39-68: a failure result is thrown and reaches setFailed through
\* the catch; a success result sets the outputs.
HandleResult ==
  /\ pc = "handle"
  /\ IF ~ result.success
     THEN /\ failed' = Append(failed, ErrorMessageOf(thrownByRun(result)))
          /\ UNCHANGED outputs
     ELSE /\ outputs' = outputsOf(result)
          /\ UNCHANGED failed
  /\ pc' = "done"
  /\ UNCHANGED <<given, caller, config, checks, warnings, errors, sent, remote,
                 result, parsed>>

\* parseMessageAttributes is exported: a caller passes it a JSON text.
CallParseMessageAttributes ==
  /\ pc = "start"
  /\ Supplied(given.messageAttributes)
  /\ caller' = "parse"
  /\ parsed' = ParsedBy(given.messageAttributes)
  /\ pc' = "done"
  /\ UNCHANGED <<given, config, checks, warnings, errors, sent, remote, result,
                 outputs, failed>>

Next ==
  \/ RunGetInputs
  \/ CallParseMessageAttributes
  \/ CallPublishMessage
  \/ ValidateTopicArn
  \/ ValidateMessage
  \/ ValidateMessageStructure
  \/ ValidateFifoTopic
  \/ BuildAndSend
  \/ SendResolves
  \/ SendRejects
  \/ HandleResult

Spec == Init /\ [][Next]_vars

\* ----------------------------------------- the validators on many inputs
\* Messages whose byte length lies around the limit, made of different
\* numbers of three-byte characters.
MessageCases ==
  {[ascii |-> b - 3 * w, wide |-> w] :
     <<b, w>> \in {bw \in {0, 5, maxSizeBytes - 1, maxSizeBytes,
                           maxSizeBytes + 1, maxSizeBytes + 2}
                          \X {0, 1, 2, maxSizeBytes \div 3,
                              (maxSizeBytes \div 3) + 1} :
                    bw[1] - 3 * bw[2] >= 0}}

\* Topic ARNs put together from a prefix, a region, an account id and a
\* name, each well-formed or not, and ARNs that lack a part.
ArnPrefixCases ==
  {ArnPrefix,
   <<"s", "n", "s", ":">>,
   <<"a", "r", "n", ":", "a", "w", "s", ":", "s", "q", "s", ":">>,
   <<"x">> \o ArnPrefix}
RegionCases == {<<>>, <<"e", "u", "-", "1">>, <<"E", "U">>, <<"e", "_">>}
AccountCases == {<<>>, <<"1", "2">>, <<"1", "a">>, <<"x">>}
NameCases ==
  {<<>>, <<"t">>, <<"t">> \o FifoSuffix, <<"a", ":", "b">>, <<" ">>,
   <<"a", "\n", "b">>, <<"t", "\n">>, <<"\r", "t">>,
   <<"a", LineSeparator, "b">>, <<"a", ParagraphSeparator, "b">>}
ArnCases ==
  {p \o r \o <<":">> \o a \o <<":">> \o n :
     p \in ArnPrefixCases, r \in RegionCases, a \in AccountCases,
     n \in NameCases}
  \cup {ArnPrefix \o r \o <<":">> \o n : r \in RegionCases, n \in NameCases}
  \cup {<<>>, ArnPrefix, BadArn, BadFifoArn}

\* Configs that vary the topic ARN or the message only.
ValidatorConfigs ==
  {[topicArn |-> am[1], message |-> am[2],
    subject |-> Undefined, messageAttributes |-> j,
    messageGroupId |-> "g1", messageDeduplicationId |-> Undefined,
    messageStructure |-> Undefined] :
     am \in (ArnCases \X {[ascii |-> 2, wide |-> 1]})
             \cup ({StdArn, FifoArn} \X MessageCases),
     j \in {NoJson("undefined"), ObjectJson(<<ValidStringAttr>>, 1)}}

InitValidators == InitWith(ValidatorConfigs, "start")

SpecValidators == InitValidators /\ [][Next]_vars

\* ================================================================ claims
\* publishMessage has returned a MessageResult.
Returned == "success" \in DOMAIN result
\* publishMessage has been called.
Called == caller \in {"run", "direct"} /\ "topicArn" \in DOMAIN config

CheckOrder == <<"arn", "size", "structure", "fifo", "attributes">>

\* What the k-th check of CheckOrder throws on cfg (NoThrow when it passes or,
\* for the attributes, when no attribute string was supplied).
CheckThrown(cfg, k) ==
  CASE k = 1 -> validateTopicArn(cfg.topicArn)
    [] k = 2 -> validateMessage(cfg.message)
    [] k = 3 -> validateMessageStructure(cfg.messageStructure)
    [] k = 4 -> validateFifoTopic(cfg.topicArn, cfg.messageGroupId)
    [] k = 5 -> IF Supplied(cfg.messageAttributes)
                THEN parseMessageAttributes(cfg.messageAttributes).thrown
                ELSE NoThrow

FailingChecks(cfg) == {k \in 1..5 : CheckThrown(cfg, k) # NoThrow}
LocalFailure(cfg) == FailingChecks(cfg) # {}
EarliestFailing(cfg) ==
  CHOOSE k \in FailingChecks(cfg) : \A j \in FailingChecks(cfg) : k <= j

\* C1: one invocation of publishMessage issues no remote publish call when a
\* local validation fails and exactly one otherwise, never more than one, and
\* the result exists only once that call has resolved or failed.
C1_OneCallIffValid ==
  /\ Len(sent) <= 1
  /\ pc = "awaiting" => Len(sent) = 1 /\ ~ Returned /\ remote.state = "none"
  /\ Returned =>
       /\ Len(sent) = IF LocalFailure(config) THEN 0 ELSE 1
       /\ Len(sent) = 1 => remote.state \in {"resolved", "rejected"}
       /\ Len(sent) = 0 => remote.state = "none"

C1_Witness ==
  /\ Returned /\ Len(sent) = 1 /\ result.success
  /\ Supplied(config.messageAttributes)

\* C2: the checks run in the order ARN, size, structure, FIFO, attributes; the
\* first failing one ends the run, so a locally failed invocation has evaluated
\* exactly the checks up to the earliest failing one and carries its error.
C2_FixedOrderShortCircuit ==
  /\ Len(checks) <= 5
  /\ \A i \in 1..Len(checks) : checks[i] = CheckOrder[i]
  /\ (Returned /\ LocalFailure(config)) =>
       LET k == EarliestFailing(config)
       IN  /\ checks = SubSeq(CheckOrder, 1, k)
           /\ result = [success |-> FALSE,
                        error |-> ErrorMessageOf(CheckThrown(config, k))]

C2_Witness ==
  /\ Returned
  /\ Cardinality(FailingChecks(config)) >= 3
  /\ checks = <<"arn", "size">>

\* C3 as stated: a sent request for a FIFO ARN carries a non-empty group id,
\* and a FIFO ARN without a group id always ends in the failure saying that
\* the group id is required.
C3_Original ==
  /\ \A i \in 1..Len(sent) :
       isFifo(sent[i].TopicArn) => Truthy(Get(sent[i], "MessageGroupId"))
  /\ (Returned /\ isFifo(config.topicArn) /\ ~ Truthy(config.messageGroupId))
       => result = [success |-> FALSE, error |-> FifoRequiredText]

\* C3 amended: a sent request for a FIFO ARN carries a non-empty group id; a
\* FIFO ARN without a group id always ends in a failure with nothing sent,
\* and the failure says that the group id is required when the ARN, size and
\* structure checks pass; a missing deduplication id fails no local check.
C3_FifoNeedsGroupId ==
  /\ \A i \in 1..Len(sent) :
       isFifo(sent[i].TopicArn) => Truthy(Get(sent[i], "MessageGroupId"))
  /\ (Returned /\ isFifo(config.topicArn) /\ ~ Truthy(config.messageGroupId))
       => /\ ~ result.success
          /\ sent = <<>>
          /\ (\A k \in 1..3 : CheckThrown(config, k) = NoThrow)
               => result.error = FifoRequiredText
  /\ (Returned /\ ~ Truthy(config.messageDeduplicationId)
        /\ arnPatternTest(config.topicArn)
        /\ byteLength(config.message) <= maxSizeBytes
        /\ config.messageStructure \in {Undefined, "json"}
        /\ (isFifo(config.topicArn) => Truthy(config.messageGroupId))
        /\ ~ Supplied(config.messageAttributes))
       => Len(sent) = 1

C3_Witness ==
  /\ Returned /\ isFifo(config.topicArn) /\ config.messageGroupId = ""
  /\ result.error = FifoRequiredText

\* C4: the request handed to the collaborator holds the ARN and the message
\* of the config unchanged, and each optional field exactly when the caller
\* supplied a non-empty value for it, with that value; a config without
\* optional fields gives a request of ARN and message only.
C4_RequestFields ==
  \A i \in 1..Len(sent) :
    LET r == sent[i]
        Opt(field, supplied) ==
          /\ field \in DOMAIN r <=> Truthy(supplied)
          /\ field \in DOMAIN r => r[field] = supplied
    IN  /\ r.TopicArn = config.topicArn /\ r.TopicArn = given.topicArn
        /\ r.Message = config.message /\ r.Message = given.message
        /\ Opt("Subject", given.subject)
        /\ Opt("MessageStructure", given.messageStructure)
        /\ Opt("MessageGroupId", given.messageGroupId)
        /\ Opt("MessageDeduplicationId", given.messageDeduplicationId)
        /\ "MessageAttributes" \in DOMAIN r <=> Supplied(given.messageAttributes)
        /\ "MessageAttributes" \in DOMAIN r =>
             DOMAIN r.MessageAttributes =
               {given.messageAttributes.entries[j].key :
                  j \in 1..Len(given.messageAttributes.entries)}
        /\ (/\ ~ Truthy(given.subject)
            /\ ~ Truthy(given.messageStructure)
            /\ ~ Truthy(given.messageGroupId)
            /\ ~ Truthy(given.messageDeduplicationId)
            /\ ~ Supplied(given.messageAttributes))
             => DOMAIN r = {"TopicArn", "Message"}

C4_Witness ==
  /\ Len(sent) = 1
  /\ given.subject = "" /\ given.messageDeduplicationId = "d1"
  /\ DOMAIN sent[1] = {"TopicArn", "Message", "MessageDeduplicationId"}

\* C5: whatever the collaborator raises is caught by publishMessage, which
\* returns the result success=false with the message extracted from the
\* raised value as error, and with no message id and no sequence number; a
\* called publishMessage always ends by returning a result.
C5_RemoteFailureCaptured ==
  /\ remote.state = "rejected" =>
       /\ Returned
       /\ DOMAIN result = {"success", "error"}
       /\ ~ result.success
       /\ result.error = IF remote.thrown.kind = "Error"
                         THEN remote.thrown.message ELSE remote.thrown.str
       /\ pc \in {"handle", "done"}
  /\ (Called /\ pc \in {"handle", "done"}) => Returned
  /\ (Returned /\ ~ result.success) => DOMAIN result = {"success", "error"}

C5_Witness ==
  /\ remote.state = "rejected" /\ remote.thrown.kind = "other"
  /\ Returned /\ result.error = "timeout"

\* C6 as stated: a result is a success with a message id, and a sequence
\* number only if the response had one, or a failure with an error message.
C6_Original ==
  Returned =>
    IF result.success
    THEN /\ Get(result, "messageId") # Undefined
         /\ Get(result, "sequenceNumber") # Undefined
              => remote.response.SequenceNumber # Undefined
         /\ "error" \notin DOMAIN result
    ELSE Get(result, "error") # Undefined

\* C6 amended: a result is a success that carries the message id and the
\* sequence number exactly as the remote response held them (each absent when
\* the response had none) and no error, or a failure that carries an error
\* message and nothing else.
C6_ResultShape ==
  Returned =>
    IF result.success
    THEN /\ DOMAIN result = {"success", "messageId", "sequenceNumber"}
         /\ remote.state = "resolved"
         /\ result.messageId = remote.response.MessageId
         /\ result.sequenceNumber = remote.response.SequenceNumber
    ELSE /\ DOMAIN result = {"success", "error"}
         /\ result.error # Undefined

C6_Witness ==
  /\ Returned /\ result.success
  /\ result.messageId = Undefined /\ result.sequenceNumber = "s-1"

\* The closed set of data types and the payload each one requires, as the
\* wire-level schema states them.
DataTypeSet == {"String", "Number", "Binary", "String.Array"}
TextTypes == {"String", "Number", "String.Array"}
HasText(attr) == attr.StringValue.t # "undefined"
HasBinary(attr) == attr.BinaryValue.t # "undefined"
BreaksSchema(attr) ==
  \/ attr.DataType \notin DataTypeSet
  \/ attr.DataType \in TextTypes /\ ~ HasText(attr)
  \/ attr.DataType = "Binary" /\ ~ HasBinary(attr)

ParseOk == parsed.done /\ parsed.thrown = NoThrow
ParsedEntries == parsed.json.entries
ParsedKeys == {ParsedEntries[i].key : i \in 1..Len(ParsedEntries)}

\* The part of C7 about rejected inputs: an attribute without DataType, with a
\* DataType outside the set or without the value its type requires makes the
\* parse fail.
SchemaBreachFails ==
  (parsed.done /\ \E i \in 1..Len(ParsedEntries) :
                     BreaksSchema(ParsedEntries[i].value))
    => parsed.thrown.kind = "Error"

\* C7 as stated: a returned attribute has a data type of the closed set and
\* exactly one payload, the textual one for String, Number and String.Array
\* and the binary one for Binary.
C7_Original ==
  /\ ParseOk =>
       \A k \in DOMAIN parsed.attributes :
         LET a == parsed.attributes[k]
         IN  /\ a.DataType \in DataTypeSet
             /\ DOMAIN a = IF a.DataType = "Binary"
                           THEN {"DataType", "BinaryValue"}
                           ELSE {"DataType", "StringValue"}
  /\ SchemaBreachFails

\* C7 amended: a returned attribute has a data type of the closed set and
\* the payload that type requires (textual for String, Number, String.Array,
\* binary for Binary); the other payload is carried too exactly when the
\* input supplied it; the rejected inputs are as stated.
C7_AttributeSchema ==
  /\ ParseOk =>
       /\ DOMAIN parsed.attributes = ParsedKeys
       /\ \A i \in 1..Len(ParsedEntries) :
            LET in == ParsedEntries[i].value
                a  == parsed.attributes[ParsedEntries[i].key]
            IN  /\ a.DataType = in.DataType
                /\ a.DataType \in DataTypeSet
                /\ a.DataType \in TextTypes => "StringValue" \in DOMAIN a
                /\ a.DataType = "Binary" => "BinaryValue" \in DOMAIN a
                /\ "StringValue" \in DOMAIN a <=> HasText(in)
                /\ "BinaryValue" \in DOMAIN a <=> HasBinary(in)
                /\ in.StringValue = JsonNumber(42) => a.StringValue = "42"
                /\ in.StringValue.t = "string" => a.StringValue = in.StringValue.s
                /\ in.BinaryValue = Base64Hi => a.BinaryValue = <<104, 105>>
  /\ SchemaBreachFails

C7_Witness ==
  /\ ParseOk /\ caller = "parse"
  /\ \E k \in DOMAIN parsed.attributes :
       /\ parsed.attributes[k].DataType = "Number"
       /\ DOMAIN parsed.attributes[k] = {"DataType", "StringValue", "BinaryValue"}

TooManyText(n) ==
  "Failed to parse message attributes: Too many message attributes: "
  \o NumToString(n) \o ". Maximum allowed is 10."

\* C8: the parse fails with the actual count whenever the input has more than
\* 10 top-level keys, whatever the attributes are; a returned map and the
\* attribute set of a sent request have at most 10 entries; exactly 10 valid
\* attributes parse.
C8_AtMostTenAttributes ==
  /\ (parsed.done /\ Len(ParsedEntries) > 10)
       => parsed.thrown = ErrorOf(TooManyText(Len(ParsedEntries)))
  /\ ParseOk => Cardinality(DOMAIN parsed.attributes) <= 10
  /\ (parsed.done /\ parsed.json.tag = "object" /\ Len(ParsedEntries) = 10
        /\ \A i \in 1..10 : ~ BreaksSchema(ParsedEntries[i].value))
       => ParseOk /\ Cardinality(DOMAIN parsed.attributes) = 10
  /\ \A i \in 1..Len(sent) :
       "MessageAttributes" \in DOMAIN sent[i]
         => Cardinality(DOMAIN sent[i].MessageAttributes) <= 10
  /\ (Returned /\ Called /\ parsed.done /\ Len(ParsedEntries) > 10)
       => sent = <<>> /\ result.error = TooManyText(Len(ParsedEntries))

C8_Witness ==
  /\ parsed.done /\ Len(ParsedEntries) = 11
  /\ BreaksSchema(ParsedEntries[1].value)
  /\ parsed.thrown.message = TooManyText(11)

\* The FIFO check ran and threw.
FifoCheckFailed ==
  Returned /\ ~ result.success /\ sent = <<>> /\ checks = SubSeq(CheckOrder, 1, 4)

\* C9: for a non-FIFO ARN with a non-empty group id validateFifoTopic does not
\* fail and warns exactly once, and the request sent carries the group id;
\* no other case warns, and a deduplication id on a non-FIFO ARN neither
\* warns nor fails.
C9_WarningOnly ==
  LET fifoChecked == Len(checks) >= 4
      nonFifoWithGroup ==
        ~ isFifo(config.topicArn) /\ Truthy(config.messageGroupId)
  IN  /\ warnings = IF fifoChecked /\ nonFifoWithGroup
                    THEN <<FifoWarningText>> ELSE <<>>
      /\ (fifoChecked /\ ~ isFifo(config.topicArn)) => ~ FifoCheckFailed
      /\ \A i \in 1..Len(sent) :
           nonFifoWithGroup
             => Get(sent[i], "MessageGroupId") = config.messageGroupId

C9_Witness ==
  /\ Len(sent) = 1 /\ warnings = <<FifoWarningText>>
  /\ sent[1].MessageGroupId = "g1" /\ ~ isFifo(sent[1].TopicArn)
  /\ Truthy(config.messageDeduplicationId)

\* run() has finished after publishMessage returned to it.
RunDone == caller = "run" /\ pc = "done" /\ Returned

\* The outputs are set exactly for the non-empty ids of the result.
OutputsMatch ==
  /\ "message-id" \in DOMAIN outputs <=> Truthy(Get(result, "messageId"))
  /\ "message-id" \in DOMAIN outputs => outputs["message-id"] = result.messageId
  /\ "sequence-number" \in DOMAIN outputs
       <=> Truthy(Get(result, "sequenceNumber"))
  /\ "sequence-number" \in DOMAIN outputs
       => outputs["sequence-number"] = result.sequenceNumber

\* C10 as stated: on a failure result setFailed is called once with the
\* result's error message and no output is set; on success setFailed is not
\* called and each output is set iff the result has that id.
C10_Original ==
  RunDone =>
    IF ~ result.success
    THEN failed = <<result.error>> /\ outputs = <<>>
    ELSE failed = <<>> /\ OutputsMatch

\* C10 amended: on a failure result setFailed is called once, with the
\* result's error message or, when that message is empty, with the text
\* "Failed to publish message", and no output is set; on success setFailed is
\* not called and each output is set iff the result has that (non-empty) id.
C10_BinaryOutcome ==
  /\ Len(failed) <= 1
  /\ RunDone =>
       IF ~ result.success
       THEN /\ failed = <<IF result.error = "" THEN "Failed to publish message"
                          ELSE result.error>>
            /\ outputs = <<>>
       ELSE failed = <<>> /\ OutputsMatch
  /\ (caller = "run" /\ pc # "done") => failed = <<>> /\ outputs = <<>>

C10_Witness ==
  /\ RunDone /\ result.success
  /\ DOMAIN outputs = {"message-id"} /\ result.sequenceNumber = Undefined

\* The size check of publishMessage has run.
SizeChecked == Len(checks) >= 2
\* ... and threw: publishMessage returned right after it.
SizeCheckFailed == Returned /\ checks = <<"arn", "size">>
\* The number of bytes of the UTF-8 encoding of the message.
Utf8Bytes(message) == message.ascii + 3 * message.wide

SizeLimitText(actual) ==
  "Message size (" \o NumToString(actual)
  \o " bytes) exceeds maximum allowed size (262144 bytes / 256 KB)"

\* C11: validateMessage succeeds for every message of at most 262144 UTF-8
\* bytes and fails, reporting the actual and the maximum byte count, for every
\* message of 262145 bytes or more; the bytes count, not the characters.
C11_ByteLimit ==
  SizeChecked =>
    LET bytes == Utf8Bytes(config.message)
    IN  /\ bytes <= 262144 => ~ SizeCheckFailed
        /\ bytes >= 262145 =>
             /\ SizeCheckFailed
             /\ sent = <<>>
             /\ result = [success |-> FALSE, error |-> SizeLimitText(bytes)]

C11_Witness ==
  /\ SizeCheckFailed
  /\ config.message.ascii + config.message.wide < 262144
  /\ Utf8Bytes(config.message) = 262145

\* A message of exactly 262144 bytes has passed the size check.
C11_WitnessAtLimit ==
  /\ SizeChecked /\ ~ SizeCheckFailed
  /\ Utf8Bytes(config.message) = 262144 /\ config.message.wide > 0

\* The ARN check of publishMessage has run.
ArnChecked == Len(checks) >= 1
\* ... and threw: publishMessage returned right after it.
ArnCheckFailed == Returned /\ checks = <<"arn">>

\* s is arn:aws:sns:<region>:<account-id>:<name>: s[i] and s[j] are the colons
\* after a non-empty region of lowercase letters, digits and hyphens and after
\* a non-empty account id of digits, and the name after s[j] is not empty.
ArnSplits(s) ==
  {ij \in (1..Len(s)) \X (1..Len(s)) :
     /\ Len(ArnPrefix) + 1 < ij[1] /\ ij[1] + 1 < ij[2] /\ ij[2] < Len(s)
     /\ SubSeq(s, 1, Len(ArnPrefix)) = ArnPrefix
     /\ s[ij[1]] = ":" /\ s[ij[2]] = ":"
     /\ \A k \in (Len(ArnPrefix) + 1)..(ij[1] - 1) : s[k] \in RegionChars
     /\ \A k \in (ij[1] + 1)..(ij[2] - 1) : s[k] \in DigitChars}
IsArnForm(s) == ArnSplits(s) # {}
\* ... and the name holds no line terminator.
IsOneLineArnForm(s) ==
  \E ij \in ArnSplits(s) :
    \A k \in (ij[2] + 1)..Len(s) :
      s[k] \notin {"\n", "\r", LineSeparator, ParagraphSeparator}

InvalidArnText(arn) ==
  "Invalid topic ARN format: \"" \o Join(arn) \o "\". "
  \o "Expected format: arn:aws:sns:{region}:{account-id}:{topic-name}"

\* C12 as stated: validateTopicArn succeeds for every string of the form
\* arn:aws:sns:<region>:<account-id>:<name> with any non-empty name, and
\* fails, naming the ARN, for every other string.
C12_Original ==
  ArnChecked =>
    /\ IsArnForm(config.topicArn) <=> ~ ArnCheckFailed
    /\ ArnCheckFailed =>
         result = [success |-> FALSE, error |-> InvalidArnText(config.topicArn)]

\* C12 amended: validateTopicArn succeeds for every string of that form whose
\* name holds no line terminator (line feed, carriage return, U+2028, U+2029),
\* a ".fifo" suffix being part of the name, and fails, naming the ARN, for
\* every other string.
C12_ArnFormat ==
  ArnChecked =>
    /\ IsOneLineArnForm(config.topicArn) <=> ~ ArnCheckFailed
    /\ ArnCheckFailed =>
         /\ sent = <<>>
         /\ result = [success |-> FALSE,
                      error |-> InvalidArnText(config.topicArn)]

C12_Witness ==
  /\ ArnChecked /\ ~ ArnCheckFailed
  /\ isFifo(config.topicArn)
  /\ \E ij \in ArnSplits(config.topicArn) : ij[2] - ij[1] = 3

\* An ARN of the form whose name holds a line feed has failed the check.
C12_WitnessLineFeed ==
  /\ ArnCheckFailed /\ caller = "run"
  /\ IsArnForm(config.topicArn) /\ ~ IsOneLineArnForm(config.topicArn)

====
